---- MODULE Spec2Model ----
(***************************************************************************)
(* A model of pyrtfdom's RTFParser (src/parse.py): the tokenizer, the      *)
(* stack of scope records with its cached full state, and the parse loop   *)
(* that routes tokens to destinations and fires the client callbacks.      *)
(*                                                                         *)
(* Strings are sequences of one-character strings.  Indices into the       *)
(* input are 0-based as in the source: CharAt(s, p) is s[p] of the source. *)
(***************************************************************************)
EXTENDS Integers, Sequences, FiniteSets, TLC

\* ------------------------------------------------------------------------
\* Characters

BS == "\\"

Alpha ==
  {"a","b","c","d","e","f","g","h","i","j","k","l","m","n","o","p","q","r",
   "s","t","u","v","w","x","y","z","A","B","C","D","E","F"}

Digit == {"0","1","2","3","4","5","6","7","8","9"}

Space == {" ", "\n", "\t", "\r"}

\* str.isalpha(), str.isdigit(), str.isspace() on one character
IsAlpha(c) == c \in Alpha
IsDigit(c) == c \in Digit
IsSpace(c) == c \in Space

\* str.upper() on one character, for the characters the tokenizer tests
Upper(c) ==
  CASE c = "a" -> "A" [] c = "b" -> "B" [] c = "c" -> "C" [] c = "d" -> "D"
    [] c = "e" -> "E" [] c = "f" -> "F" [] OTHER -> c

\* the hexadecimal letters __getControlWordOrSymbol accepts after \'
HexLetters == {"A", "B", "C", "D", "E"}

CharAt(s, p) == s[p + 1]
InRange(s, p) == p >= 0 /\ p < Len(s)
\* s[a:b] of the source
Slice(s, a, b) == SubSeq(s, a + 1, b)

\* ------------------------------------------------------------------------
\* Token types (RTFParser.TokenType)

OPEN_BRACE == "OPEN_BRACE"
CLOSE_BRACE == "CLOSE_BRACE"
CONTROL_WORDORSYM == "CONTROL_WORDORSYM"
CHARACTER == "CHARACTER"
EOF == "EOF"

\* the value False that reset() and parse() store in __curToken/__prevToken
NoToken == [type |-> "False", text |-> <<>>]

Token(type, text) == [type |-> type, text |-> text]

\* ------------------------------------------------------------------------
\* Tokenizer.  Each operator returns [err, token, curPos]; err is "none" or
\* the exception the source raises (IndexError when it reads content at
\* curPos = len(content)).

RECURSIVE ScanAlpha(_, _)
\* while self.__content[self.__curPos].isalpha(): advance
ScanAlpha(content, p) ==
  IF InRange(content, p) /\ IsAlpha(CharAt(content, p))
  THEN ScanAlpha(content, p + 1)
  ELSE p

RECURSIVE ScanParam(_, _, _)
\* while isdigit() or (curPos == digitIndex and '-' == c): advance
ScanParam(content, p, digitIndex) ==
  IF InRange(content, p)
     /\ (IsDigit(CharAt(content, p))
         \/ (p = digitIndex /\ CharAt(content, p) = "-"))
  THEN ScanParam(content, p + 1, digitIndex)
  ELSE p

RECURSIVE ScanHex(_, _, _)
\* while decimalCount < 2 and (isdigit() or upper() in ['A'..'E']): advance
\* Returns the position where the loop stops; the loop reads content there
\* only when decimalCount < 2.
ScanHex(content, p, decimalCount) ==
  IF decimalCount < 2 /\ InRange(content, p)
     /\ (IsDigit(CharAt(content, p)) \/ Upper(CharAt(content, p)) \in HexLetters)
  THEN ScanHex(content, p + 1, decimalCount + 1)
  ELSE p

\* the token without the whitespace that delimits a control word
TokOkNoDelimiter(content, from, to) ==
  [err |-> "none",
   token |-> <<BS>> \o Slice(content, from,
                            IF to > from /\ IsSpace(CharAt(content, to - 1))
                            THEN to - 1 ELSE to),
   curPos |-> to]

TokErr(e, p) == [err |-> e, token |-> <<>>, curPos |-> p]
TokOk(content, from, to) ==
  [err |-> "none", token |-> <<BS>> \o Slice(content, from, to), curPos |-> to]

GetControlWordOrSymbol(content, curPos) ==
  IF ~InRange(content, curPos) THEN TokErr("IndexError", curPos)
  ELSE LET c == CharAt(content, curPos) IN
    IF ~IsAlpha(c) /\ ~IsSpace(c) THEN
      IF c = "'" THEN
        LET q == ScanHex(content, curPos + 1, 0) IN
        IF q - (curPos + 1) < 2 /\ ~InRange(content, q)
        THEN TokErr("IndexError", q)
        ELSE TokOk(content, curPos, q)
      ELSE TokOk(content, curPos, curPos + 1)
    ELSE IF IsAlpha(c) THEN
      LET a == ScanAlpha(content, curPos) IN
      IF ~InRange(content, a) THEN TokErr("IndexError", a)
      ELSE
        LET hasParam == IsDigit(CharAt(content, a)) \/ CharAt(content, a) = "-"
            d == IF hasParam THEN ScanParam(content, a, a) ELSE a
        IN
        IF ~InRange(content, d) THEN TokErr("IndexError", d)
        ELSE IF IsSpace(CharAt(content, d)) THEN TokOk(content, curPos, d + 1)
        ELSE TokOk(content, curPos, d)
    ELSE TokErr("ValueError", curPos)

\* Returns [err, token (a Token), curPos].
GetNextToken(content, curPos) ==
  IF content = <<>> THEN [err |-> "none", token |-> NoToken, curPos |-> curPos]
  ELSE IF curPos >= Len(content)
  THEN [err |-> "none", token |-> Token(EOF, <<>>), curPos |-> curPos]
  ELSE IF CharAt(content, curPos) = BS THEN
    LET r == GetControlWordOrSymbol(content, curPos + 1) IN
    [err |-> r.err, token |-> Token(CONTROL_WORDORSYM, r.token), curPos |-> r.curPos]
  ELSE
    LET c == CharAt(content, curPos)
        tokenType == IF c = "{" THEN OPEN_BRACE
                     ELSE IF c = "}" THEN CLOSE_BRACE
                     ELSE CHARACTER
    IN [err |-> "none", token |-> Token(tokenType, <<c>>), curPos |-> curPos + 1]

\* ------------------------------------------------------------------------
\* Conversions: ord/chr, int(x, 10), int(x, 16), binascii.unhexlify

LowerSeq ==
  <<"a","b","c","d","e","f","g","h","i","j","k","l","m","n","o","p","q","r",
    "s","t","u","v","w","x","y","z">>
UpperSeq == <<"A","B","C","D","E","F">>
DigitSeq == <<"0","1","2","3","4","5","6","7","8","9">>

IndexIn(seq, c) == CHOOSE i \in 1..Len(seq) : seq[i] = c

\* code point of a character of the model's alphabet
Ord(c) ==
  IF \E i \in 1..Len(LowerSeq) : LowerSeq[i] = c THEN 96 + IndexIn(LowerSeq, c)
  ELSE IF \E i \in 1..Len(UpperSeq) : UpperSeq[i] = c THEN 64 + IndexIn(UpperSeq, c)
  ELSE IF c \in Digit THEN 47 + IndexIn(DigitSeq, c)
  ELSE CASE c = " " -> 32 [] c = "\n" -> 10 [] c = "\t" -> 9 [] c = "\r" -> 13
         [] c = BS -> 92 [] c = "{" -> 123 [] c = "}" -> 125 [] c = "*" -> 42
         [] c = "'" -> 39 [] c = "?" -> 63 [] c = "-" -> 45 [] c = ";" -> 59

Alphabet == Alpha \cup Digit \cup Space \cup {BS, "{", "}", "*", "'", "?", "-", ";"}

\* chr(n): the character of the alphabet with that code point, and otherwise
\* the character written "U+<n>"
Chr(n) ==
  IF \E c \in Alphabet : Ord(c) = n
  THEN CHOOSE c \in Alphabet : Ord(c) = n
  ELSE "U+" \o ToString(n)

\* chr() takes a C int, of 32 bits: the largest of them.  The model keeps
\* Python's integers exact within 32 bits.
MaxInt == 2147483647

\* chr(n) for n within 32 bits raises ValueError outside range(0x110000);
\* beyond 32 bits it raises OverflowError (see ChrError)
ChrInRange(n) == n >= 0 /\ n <= 1114111

DigitValue(c) == IndexIn(DigitSeq, c) - 1

HexDigits == Digit \cup {"a","b","c","d","e","f","A","B","C","D","E","F"}
HexDigitValue(c) ==
  IF c \in Digit THEN DigitValue(c)
  ELSE 9 + IndexIn(UpperSeq, Upper(c))

RECURSIVE HexValue(_)
HexValue(s) ==
  IF s = <<>> THEN 0 ELSE HexValue(SubSeq(s, 1, Len(s) - 1)) * 16 + HexDigitValue(s[Len(s)])

\* the value of the digits s read after acc, or -1 once it exceeds MaxInt
RECURSIVE Magnitude(_, _, _)
Magnitude(s, base, acc) ==
  IF s = <<>> THEN acc
  ELSE LET d == HexDigitValue(s[1]) IN
       IF acc > (MaxInt - d) \div base THEN 0 - 1
       ELSE Magnitude(Tail(s), base, acc * base + d)

\* the digits of MaxInt + 1
MinIntDigits(base) ==
  IF base = 10 THEN <<"2","1","4","7","4","8","3","6","4","8">>
  ELSE <<"8","0","0","0","0","0","0","0">>

AllIn(s, set) == \A i \in 1..Len(s) : s[i] \in set

RECURSIVE LStrip(_, _)
\* str.lstrip(chars)
LStrip(s, set) == IF s # <<>> /\ s[1] \in set THEN LStrip(Tail(s), set) ELSE s

RECURSIVE RStrip(_, _)
RStrip(s, set) ==
  IF s # <<>> /\ s[Len(s)] \in set THEN RStrip(SubSeq(s, 1, Len(s) - 1), set) ELSE s

\* str.strip()
Strip(s) == RStrip(LStrip(s, Space), Space)

\* the Python value None (a parameter that is absent), which is not the
\* empty string
None == <<"None">>

\* the truth value of a parameter: None and the empty string are false
Truthy(x) == x # None /\ x # <<>>

NotUnderscore(c) == c # "_"

\* digits of the base, with single underscores between them
Grouped(s, digits) ==
  /\ s # <<>>
  /\ s[1] \in digits
  /\ s[Len(s)] \in digits
  /\ \A i \in 1..Len(s) : s[i] \in digits \/ s[i] = "_"
  /\ \A i \in 1..(Len(s) - 1) : ~(s[i] = "_" /\ s[i + 1] = "_")

\* the integer of the sign and the digits ds, which have the magnitude mag
\* (-1 when it exceeds MaxInt)
IntResult(neg, ds, base, mag) ==
  IF mag >= 0
  THEN [err |-> "none", value |-> IF neg THEN 0 - mag ELSE mag, huge |-> 0]
  ELSE IF neg /\ ds = MinIntDigits(base)
  THEN [err |-> "none", value |-> 0 - MaxInt - 1, huge |-> 0]
  ELSE [err |-> "none", value |-> [neg |-> neg, base |-> base, digits |-> ds],
        huge |-> IF neg THEN 0 - 1 ELSE 1]

IntOfDigits(neg, ds, base) == IntResult(neg, ds, base, Magnitude(ds, base, 0))

\* the text after the sign and the prefix
ParseDigits(neg, body, digits, base) ==
  IF ~Grouped(body, digits) THEN [err |-> "ValueError", value |-> 0, huge |-> 0]
  ELSE IntOfDigits(neg, LStrip(SelectSeq(body, NotUnderscore), {"0"}), base)

\* the text after the sign: in base 16 a prefix 0x or 0X, which an underscore
\* may follow, is dropped
ParsePrefixed(neg, u, digits, base) ==
  IF base = 16 /\ Len(u) >= 2 /\ u[1] = "0" /\ u[2] \in {"x", "X"}
  THEN ParseDigits(neg, SubSeq(u, IF Len(u) >= 3 /\ u[3] = "_" THEN 4 ELSE 3, Len(u)),
                   digits, base)
  ELSE ParseDigits(neg, u, digits, base)

\* the text without the surrounding whitespace: one leading sign is dropped
ParseSigned(t, digits, base) ==
  IF t # <<>> /\ t[1] \in {"-", "+"}
  THEN ParsePrefixed(t[1] = "-", Tail(t), digits, base)
  ELSE ParsePrefixed(FALSE, t, digits, base)

\* int(x, base) for a string x: surrounding whitespace, one leading sign and,
\* in base 16, a prefix 0x or 0X (which an underscore may follow) are
\* accepted, the rest must be digits of the base with single underscores
\* between them.  Returns [err, value, huge]; int(None, base) raises
\* TypeError and int('', base) ValueError.  huge is 0 for a value within 32
\* bits; a value above MaxInt (huge = 1) or below -MaxInt - 1 (huge = -1) is kept
\* as the literal that denotes it.
ParseInt(x, digits, base) ==
  IF x = None THEN [err |-> "TypeError", value |-> 0, huge |-> 0]
  ELSE ParseSigned(Strip(x), digits, base)

Int10(x) == ParseInt(x, Digit, 10)
Int16(x) == ParseInt(x, HexDigits, 16)

\* the exception chr() raises for the result n of int(), "none" if none
ChrError(n) ==
  IF n.huge # 0 THEN "OverflowError"
  ELSE IF ~ChrInRange(n.value) THEN "ValueError"
  ELSE "none"

RECURSIVE HexPairs(_)
HexPairs(s) ==
  IF Len(s) < 2 THEN <<>>
  ELSE <<HexDigitValue(s[1]) * 16 + HexDigitValue(s[2])>> \o HexPairs(SubSeq(s, 3, Len(s)))

\* binascii.unhexlify(s): [err, value]; an odd length or a non-hexadecimal
\* digit raises binascii.Error
Unhexlify(s) ==
  IF Len(s) % 2 # 0 \/ ~AllIn(s, HexDigits) THEN [err |-> "binascii.Error", value |-> <<>>]
  ELSE [err |-> "none", value |-> HexPairs(s)]

\* ------------------------------------------------------------------------
\* Control-word splitting

\* re.search('-?\d+', control).start(): the leftmost position where a digit,
\* or a "-" directly followed by a digit, stands; Len(control) when none
RECURSIVE ParamStart(_, _)
ParamStart(control, i) ==
  IF i >= Len(control) THEN Len(control)
  ELSE IF IsDigit(CharAt(control, i))
          \/ (CharAt(control, i) = "-" /\ i + 1 < Len(control)
              /\ IsDigit(CharAt(control, i + 1)))
       THEN i
       ELSE ParamStart(control, i + 1)

\* [word, param] of a token
SplitControlWord(token) ==
  LET control == Strip(token.text)
      paramStartIndex == ParamStart(control, 0)
  IN IF paramStartIndex < Len(control)
     THEN [word |-> Slice(control, 0, paramStartIndex),
           param |-> Slice(control, paramStartIndex, Len(control))]
     ELSE [word |-> control, param |-> None]

\* ------------------------------------------------------------------------
\* Vocabulary of __executeControl

W_generator == <<BS,"g","e","n","e","r","a","t","o","r">>
W_pgdsctbl == <<BS,"p","g","d","s","c","t","b","l">>
W_field == <<BS,"f","i","e","l","d">>
W_fldrslt == <<BS,"f","l","d","r","s","l","t">>
W_fldinst == <<BS,"f","l","d","i","n","s","t">>
W_pict == <<BS,"p","i","c","t">>
W_blipuid == <<BS,"b","l","i","p","u","i","d">>
W_bliptag == <<BS,"b","l","i","p","t","a","g">>
W_jpegblip == <<BS,"j","p","e","g","b","l","i","p">>
W_pngblip == <<BS,"p","n","g","b","l","i","p">>
W_emfblip == <<BS,"e","m","f","b","l","i","p">>
W_pmmetafile == <<BS,"p","m","m","e","t","a","f","i","l","e">>
W_wmetafile == <<BS,"w","m","e","t","a","f","i","l","e">>
W_dibitmap == <<BS,"d","i","b","i","t","m","a","p">>
W_wbitmap == <<BS,"w","b","i","t","m","a","p">>
W_emspace == <<BS,"e","m","s","p","a","c","e">>
W_enspace == <<BS,"e","n","s","p","a","c","e">>
W_endash == <<BS,"e","n","d","a","s","h">>
W_emdash == <<BS,"e","m","d","a","s","h">>
W_lquote == <<BS,"l","q","u","o","t","e">>
W_rquote == <<BS,"r","q","u","o","t","e">>
W_ldblquote == <<BS,"l","d","b","l","q","u","o","t","e">>
W_rdblquote == <<BS,"r","d","b","l","q","u","o","t","e">>
W_line == <<BS,"l","i","n","e">>
W_tab == <<BS,"t","a","b">>
W_bullet == <<BS,"b","u","l","l","e","t">>
W_chdate == <<BS,"c","h","d","a","t","e">>
W_chdpl == <<BS,"c","h","d","p","l">>
W_chdpa == <<BS,"c","h","d","p","a">>
W_chtime == <<BS,"c","h","t","i","m","e">>
W_u == <<BS,"u">>
W_par == <<BS,"p","a","r">>
W_plain == <<BS,"p","l","a","i","n">>
W_ql == <<BS,"q","l">>
W_qr == <<BS,"q","r">>
W_qc == <<BS,"q","c">>
W_qd == <<BS,"q","d">>
W_qj == <<BS,"q","j">>
W_qt == <<BS,"q","t">>
W_i == <<BS,"i">>
W_b == <<BS,"b">>
W_ul == <<BS,"u","l">>
W_strike == <<BS,"s","t","r","i","k","e">>
W_picw == <<BS,"p","i","c","w">>
W_fonttbl == <<BS,"f","o","n","t","t","b","l">>
W_star == <<BS,"*">>
W_backslash == <<BS,BS>>
W_lbrace == <<BS,"{">>
W_rbrace == <<BS,"}">>
W_tilde == <<BS,"~">>
W_underscore == <<BS,"_">>
W_hex == <<BS,"'">>

\* the destinations skipped when they directly follow "{"
SkippedDestinations ==
  {<<BS,"f","o","n","t","t","b","l">>,
   <<BS,"f","i","l","e","t","b","l">>,
   <<BS,"c","o","l","o","r","t","b","l">>,
   <<BS,"s","t","y","l","e","s","h","e","e","t">>,
   <<BS,"s","t","y","l","e","r","e","s","t","r","i","c","t","i","o","n","s">>,
   <<BS,"l","i","s","t","t","a","b","l","e","s">>,
   <<BS,"r","e","v","t","b","l">>,
   <<BS,"r","s","i","d","t","a","b","l","e">>,
   <<BS,"m","a","t","h","p","r","o","p","s">>,
   <<BS,"g","e","n","e","r","a","t","o","r">>,
   <<BS,"i","n","f","o">>}

\* the picture controls whose parameter is stored as an integer
PictIntWords ==
  {<<BS,"p","i","c","s","c","a","l","e","x">>,
   <<BS,"p","i","c","s","c","a","l","e","y">>,
   <<BS,"p","i","c","c","r","o","p","l">>,
   <<BS,"p","i","c","c","r","o","p","r">>,
   <<BS,"p","i","c","c","r","o","p","t">>,
   <<BS,"p","i","c","c","r","o","p","b">>,
   <<BS,"p","i","c","w">>,
   <<BS,"p","i","c","h">>,
   <<BS,"p","i","c","w","g","o","a","l">>,
   <<BS,"p","i","c","h","g","o","a","l">>,
   <<BS,"p","i","c","b","p","p">>,
   <<BS,"w","b","m","b","i","t","s","p","i","x","e","l">>,
   <<BS,"w","b","m","p","l","a","n","e","s">>,
   <<BS,"w","b","m","w","i","d","t","h","b","y","t","e","s">>}

S_source == <<"s","o","u","r","c","e">>
S_metafileType == <<"m","e","t","a","f","i","l","e","T","y","p","e">>
S_metafileMappingMode == <<"m","e","t","a","f","i","l","e","M","a","p","p","i","n","g","M","o","d","e">>
S_bitmapType == <<"b","i","t","m","a","p","T","y","p","e">>

\* ------------------------------------------------------------------------
\* Scope records and the cached full state

\* RTFParser.__stateFormattingAttributes: the attributes and their defaults
StateFormattingAttributes ==
  [italic |-> FALSE, bold |-> FALSE, underline |-> FALSE,
   strikethrough |-> FALSE, alignment |-> "left"]

FormattingKeys == DOMAIN StateFormattingAttributes

\* RTFParser.__specialStateVars
SpecialStateVars ==
  {"groupSkip", "inField", "inFieldinst", "inFieldrslt", "inPict",
   "pictAttributes", "inBlipUID", "blipUID"}

\* the dict {} and the value False of __curState / __fullStateCache after reset()
EmptyDict == [k \in {} |-> FALSE]

\* d[k] = v on a dict
Put(d, k, v) == [x \in (DOMAIN d) \cup {k} |-> IF x = k THEN v ELSE d[x]]

\* a test that finds no flag set
IsTrueNever(d, k) == FALSE

\* k in d and d[k]
IsTrue(d, k) == k \in DOMAIN d /\ d[k] = TRUE

\* The part of the parser that one token's processing reads and writes:
\* cur is __curState, full is __fullStateCache, events are the callbacks
\* fired so far, err is the exception raised ("none" when none was).
Machine(cur, full) == [cur |-> cur, full |-> full, events |-> <<>>, err |-> "none"]

Fire(m, event) == [m EXCEPT !.events = Append(@, event)]
Raise(m, e) == [m EXCEPT !.err = e]

CacheFullStateNoInherit(curState, stateStack) == curState

\* __cacheFullState: the current scope, completed with every attribute and
\* special variable it lacks from the nearest enclosing scope that has it
CacheFullState(curState, stateStack) ==
  LET known == FormattingKeys \cup SpecialStateVars
      holders(a) == {i \in 1..Len(stateStack) : a \in DOMAIN stateStack[i]}
      nearest(a) == CHOOSE i \in holders(a) : \A j \in holders(a) : j <= i
      inherited == {a \in known \ DOMAIN curState : holders(a) # {}}
  IN [a \in (DOMAIN curState) \cup inherited |->
        IF a \in DOMAIN curState THEN curState[a] ELSE stateStack[nearest(a)][a]]

OpenParagraph(m) == Fire(m, [cb |-> "onOpenParagraph"])

AppendToCurrentParagraph(m, string) ==
  Fire(m, [cb |-> "onAppendParagraph", string |-> string])

CloseParagraph(m, callbacks) ==
  IF "onCloseParagraph" \in callbacks THEN Fire(m, [cb |-> "onCloseParagraph"]) ELSE m

\* __resetStateFormattingAttributes
ResetStateFormattingAttributes(m, stateStack, doCallback) ==
  LET formerState == m.full
      cur2 == [a \in (DOMAIN m.cur) \cup FormattingKeys |->
                 IF a \in FormattingKeys THEN StateFormattingAttributes[a] ELSE m.cur[a]]
      full2 == CacheFullState(cur2, stateStack)
      m2 == [m EXCEPT !.cur = cur2, !.full = full2]
  IN IF doCallback
     THEN Fire(m2, [cb |-> "onStateChange", old |-> formerState, new |-> full2])
     ELSE m2

\* a __setStateValue that fires onStateChange whatever its last argument
SetStateValueLoud(m, stateStack, attribute, value, triggerOnStateChange) ==
  LET cur2 == Put(m.cur, attribute, value)
      full2 == CacheFullState(cur2, stateStack)
  IN Fire([m EXCEPT !.cur = cur2, !.full = full2],
          [cb |-> "onStateChange", old |-> m.full, new |-> full2])

\* __setStateValue
SetStateValue(m, stateStack, attribute, value, triggerOnStateChange) ==
  LET oldState == m.full
      cur2 == Put(m.cur, attribute, value)
      full2 == CacheFullState(cur2, stateStack)
      m2 == [m EXCEPT !.cur = cur2, !.full = full2]
  IN IF triggerOnStateChange
     THEN Fire(m2, [cb |-> "onStateChange", old |-> oldState, new |-> full2])
     ELSE m2

\* __parseField (onField is a required callback)
ParseField(m, fldinst, fldrslt) ==
  Fire(m, [cb |-> "onField", fldinst |-> fldinst, fldrslt |-> fldrslt])

\* __parseImage
ParseImage(m, attributes, pictData, callbacks) ==
  IF "onImage" \in callbacks
  THEN LET bytes == Unhexlify(pictData) IN
       IF bytes.err # "none" THEN Raise(m, bytes.err)
       ELSE Fire(m, [cb |-> "onImage", attributes |-> attributes, data |-> bytes.value])
  ELSE m

\* __parseImageID
ParseImageID(m, stateStack, hexval) ==
  LET v == Int16(LStrip(hexval, {"0"})) IN
  IF v.err # "none" THEN Raise(m, v.err)
  ELSE SetStateValue(m, stateStack, "blipUID", v.value, FALSE)

\* pictAttributes[key] = value, then __setStateValue('pictAttributes', ...)
SetPictAttribute(m, stateStack, key, value) ==
  SetStateValue(m, stateStack, "pictAttributes", Put(m.cur["pictAttributes"], key, value), FALSE)

\* the on/off value of \i, \b, \ul, \strike
OnOff(param) == param = None \/ param = <<"1">>

\* the text time.strftime() returns, kept as one opaque character
Strftime(format) == <<"strftime:" \o format>>

\* ------------------------------------------------------------------------
\* __executeControl

\* Part 5 of the dispatch: misc control words, alignment and character styles
ExecuteFormatting(m, stateStack, word, param, callbacks) ==
  IF word = W_par THEN OpenParagraph(CloseParagraph(m, callbacks))
  ELSE IF word = W_plain THEN ResetStateFormattingAttributes(m, stateStack, TRUE)
  ELSE IF word = W_ql THEN SetStateValue(m, stateStack, "alignment", "left", TRUE)
  ELSE IF word = W_qr THEN SetStateValue(m, stateStack, "alignment", "right", TRUE)
  ELSE IF word = W_qc THEN SetStateValue(m, stateStack, "alignment", "center", TRUE)
  ELSE IF word = W_qd THEN SetStateValue(m, stateStack, "alignment", "distributed", TRUE)
  ELSE IF word = W_qj THEN SetStateValue(m, stateStack, "alignment", "justified", TRUE)
  ELSE IF word = W_qt THEN SetStateValue(m, stateStack, "alignment", "thai-distributed", TRUE)
  ELSE IF word = W_i THEN SetStateValue(m, stateStack, "italic", OnOff(param), TRUE)
  ELSE IF word = W_b THEN SetStateValue(m, stateStack, "bold", OnOff(param), TRUE)
  ELSE IF word = W_ul THEN SetStateValue(m, stateStack, "underline", OnOff(param), TRUE)
  ELSE IF word = W_strike THEN SetStateValue(m, stateStack, "strikethrough", OnOff(param), TRUE)
  ELSE m

\* a test that never takes a \'XX for the fallback of a \uN
FollowsUnicodeNever(prevToken) == FALSE

\* __executeControl, lines 523-535: the previous token is a \u control word,
\* so that a \'XX after it is its ANSI fallback
FollowsUnicode(prevToken) == SplitControlWord(prevToken).word = W_u

\* __executeControl, lines 514-517: chr(n) is appended; ValueError, of int()
\* or of chr(), is ignored and OverflowError is not
AppendChr(m, n) ==
  IF n.err = "ValueError" \/ ChrError(n) = "ValueError" THEN m
  ELSE IF ChrError(n) = "OverflowError" THEN Raise(m, "OverflowError")
  ELSE AppendToCurrentParagraph(m, <<Chr(n.value)>>)

\* __executeControl, lines 522-535: a code above 255 is ignored
AppendAnsi(m, charCode) ==
  IF charCode.err = "ValueError" THEN m
  ELSE IF charCode.huge = 1 \/ (charCode.huge = 0 /\ charCode.value > 255) THEN m
  ELSE AppendChr(m, charCode)

\* Parts 3 and 4 of the dispatch: escaped, special and numbered characters
ExecuteCharacter(m, stateStack, prevToken, word, param, callbacks) ==
  IF word = W_backslash THEN AppendToCurrentParagraph(m, <<BS>>)
  ELSE IF word = W_lbrace THEN AppendToCurrentParagraph(m, <<"{">>)
  ELSE IF word = W_rbrace THEN AppendToCurrentParagraph(m, <<"}">>)
  ELSE IF word = W_tilde THEN AppendToCurrentParagraph(m, <<Chr(160)>>)
  ELSE IF word = W_underscore THEN AppendToCurrentParagraph(m, <<Chr(8209)>>)
  ELSE IF word = W_emspace THEN AppendToCurrentParagraph(m, <<Chr(8195)>>)
  ELSE IF word = W_enspace THEN AppendToCurrentParagraph(m, <<Chr(8194)>>)
  ELSE IF word = W_endash THEN AppendToCurrentParagraph(m, <<Chr(8211)>>)
  ELSE IF word = W_emdash THEN AppendToCurrentParagraph(m, <<Chr(8212)>>)
  ELSE IF word = W_lquote THEN AppendToCurrentParagraph(m, <<Chr(8216)>>)
  ELSE IF word = W_rquote THEN AppendToCurrentParagraph(m, <<Chr(8217)>>)
  ELSE IF word = W_ldblquote THEN AppendToCurrentParagraph(m, <<Chr(8220)>>)
  ELSE IF word = W_rdblquote THEN AppendToCurrentParagraph(m, <<Chr(8221)>>)
  ELSE IF word = W_line THEN AppendToCurrentParagraph(m, <<"\n">>)
  ELSE IF word = W_tab THEN AppendToCurrentParagraph(m, <<"\t">>)
  ELSE IF word = W_bullet THEN AppendToCurrentParagraph(m, <<Chr(8226)>>)
  ELSE IF word = W_chdate \/ word = W_chdpl
    THEN AppendToCurrentParagraph(m, Strftime("%A, %B %d, %Y"))
  ELSE IF word = W_chdpa THEN AppendToCurrentParagraph(m, Strftime("%m/%d/%Y"))
  ELSE IF word = W_chtime THEN AppendToCurrentParagraph(m, Strftime("%I:%M:%S %p"))
  ELSE IF word = W_u /\ Truthy(param) THEN AppendChr(m, Int10(param))
  ELSE IF word = W_hex /\ Truthy(param) THEN
    IF FollowsUnicode(prevToken) THEN m ELSE AppendAnsi(m, Int16(param))
  ELSE ExecuteFormatting(m, stateStack, word, param, callbacks)

\* Part 2 of the dispatch: embedded images
ExecuteImage(m, stateStack, prevToken, word, param, callbacks) ==
  LET inPictScope == "pictAttributes" \in DOMAIN m.cur
      source(name) == SetPictAttribute(m, stateStack, S_source, name)
  IN
  IF prevToken.type = OPEN_BRACE /\ word = W_pict THEN
    SetStateValue(SetStateValue(m, stateStack, "inPict", TRUE, FALSE),
                  stateStack, "pictAttributes", EmptyDict, FALSE)
  ELSE IF prevToken.text = W_star /\ word = W_blipuid THEN
    IF "blipUID" \in DOMAIN m.cur
    THEN SetStateValue(m, stateStack, "groupSkip", TRUE, FALSE)
    ELSE SetStateValue(m, stateStack, "inBlipUID", TRUE, FALSE)
  ELSE IF word = W_bliptag THEN
    LET n == Int10(param) IN
    IF n.err # "none" THEN Raise(m, n.err)
    ELSE SetStateValue(m, stateStack, "blipUID", n.value, FALSE)
  ELSE IF inPictScope /\ word \in PictIntWords THEN
    LET n == Int10(param) IN
    IF n.err # "none" THEN Raise(m, n.err)
    ELSE SetPictAttribute(m, stateStack, word, n.value)
  ELSE IF inPictScope /\ word = W_jpegblip THEN source(<<"j","p","e","g">>)
  ELSE IF inPictScope /\ word = W_pngblip THEN source(<<"p","n","g">>)
  ELSE IF inPictScope /\ word = W_emfblip THEN source(<<"e","m","f">>)
  ELSE IF inPictScope /\ word = W_pmmetafile THEN
    SetPictAttribute(source(<<"o","s","2","m","e","t","a">>), stateStack, S_metafileType, param)
  ELSE IF inPictScope /\ word = W_wmetafile THEN
    SetPictAttribute(source(<<"w","i","n","m","e","t","a">>), stateStack, S_metafileMappingMode, param)
  ELSE IF inPictScope /\ word = W_dibitmap THEN
    SetPictAttribute(source(<<"w","d","i","b","m","p">>), stateStack, S_bitmapType, param)
  ELSE IF inPictScope /\ word = W_wbitmap THEN
    SetPictAttribute(source(<<"w","d","d","b","m","p">>), stateStack, S_bitmapType, param)
  ELSE ExecuteCharacter(m, stateStack, prevToken, word, param, callbacks)

\* Part 1 of the dispatch: destinations and fields
ExecuteDestination(m, stateStack, prevToken, word, param, callbacks) ==
  IF prevToken.text = W_star /\ word = W_generator
    THEN SetStateValue(m, stateStack, "groupSkip", TRUE, FALSE)
  ELSE IF prevToken.text = W_star /\ word = W_pgdsctbl
    THEN SetStateValue(m, stateStack, "groupSkip", TRUE, FALSE)
  ELSE IF prevToken.type = OPEN_BRACE /\ word \in SkippedDestinations
    THEN SetStateValue(m, stateStack, "groupSkip", TRUE, FALSE)
  ELSE IF prevToken.type = OPEN_BRACE /\ word = W_field
    THEN SetStateValue(m, stateStack, "inField", TRUE, FALSE)
  ELSE IF prevToken.type = OPEN_BRACE /\ word = W_fldrslt
    THEN SetStateValue(m, stateStack, "inFieldrslt", TRUE, FALSE)
  ELSE IF prevToken.text = W_star /\ word = W_fldinst
    THEN SetStateValue(m, stateStack, "inFieldinst", TRUE, FALSE)
  ELSE ExecuteImage(m, stateStack, prevToken, word, param, callbacks)

\* __executeControl(word, param).  The first test of the dispatch subscripts
\* __prevToken, which is False while the first token of the input is current.
ExecuteControl(m, stateStack, prevToken, word, param, callbacks) ==
  LET m1 == IF word = W_star /\ IsTrue(m.cur, "inFieldinst")
            THEN SetStateValue(m, stateStack, "inFieldinst", FALSE, FALSE)
            ELSE m
  IN IF prevToken = NoToken THEN Raise(m1, "TypeError")
     ELSE ExecuteDestination(m1, stateStack, prevToken, word, param, callbacks)

\* ------------------------------------------------------------------------
\* Bounds of the exploration

\* pushed scopes (open groups) at any time
MaxDepth == 2
\* characters a destination buffer holds before the input stops feeding it
MaxBuf == 1
\* pieces of input read ahead of the cursor to complete one token
MaxLookahead == 2
\* paragraphs left open at any time
MaxOpen == 2
\* characters of an input handed to the tokenizer alone
MaxInput == 4
\* pieces of an input handed to parse() whole
MaxPieces == 4

\* ------------------------------------------------------------------------
\* The parser as a state machine

VARIABLES
  content,        \* __content from __curPos on: the input not yet tokenized
  final,          \* TRUE when content reaches to the end of the input
  lookahead,      \* pieces of input appended to content since the last token
  vocabulary,     \* the pieces the input is made of
  callbacks,      \* the optional callbacks the client registered
  pc,             \* position in parse()
  error,          \* the exception that ended parse(), "none" if none did
  curToken,       \* __curToken
  prevToken,      \* __prevToken
  stateStack,     \* __stateStack
  curState,       \* __curState
  fullStateCache, \* __fullStateCache
  fldInst,        \* parse()'s local fldInst
  fldRslt,        \* parse()'s local fldRslt
  blipUID,        \* parse()'s local blipUID
  pict,           \* parse()'s local pict
  events,         \* the callbacks fired while the current token was processed
  pre,            \* history: the parser before the current token was processed
  saved,          \* history: the full state before each group still open
  shape,          \* history: how far the open group matches a plain field group
  rootWritten,    \* history: a control word ran, or a \blipuid group ended, outside all other groups
  openParagraphs  \* history: onOpenParagraph calls minus onCloseParagraph calls

vars ==
  <<content, final, lookahead, vocabulary, callbacks, pc, error, curToken,
    prevToken, stateStack, curState, fullStateCache, fldInst, fldRslt,
    blipUID, pict, events, pre, saved, shape, rootWritten, openParagraphs>>

input == <<content, final, lookahead>>
config == <<vocabulary, callbacks>>
tokens == <<curToken, prevToken>>
scopes == <<stateStack, curState, fullStateCache>>
buffers == <<fldInst, fldRslt, blipUID, pict>>
history == <<pre, saved, shape, rootWritten, openParagraphs>>

NoSnapshot == [taken |-> FALSE]

Snapshot ==
  [taken |-> TRUE, full |-> fullStateCache, cur |-> curState, stack |-> stateStack,
   fldInst |-> fldInst, fldRslt |-> fldRslt, blipUID |-> blipUID, pict |-> pict,
   saved |-> saved, openParagraphs |-> openParagraphs]

\* The pieces inputs are built from.
\* a control word with the space that delimits it
Sp(w) == w \o <<" ">>
Braces == {<<"{">>, <<"}">>}
PlainPieces == {<<"a">>}
FormattingPieces == {Sp(W_b), Sp(W_b \o <<"0">>), Sp(W_plain), Sp(W_qr), Sp(W_par)}
SkipPieces == {Sp(W_fonttbl)}
FieldPieces == {W_star, W_field, Sp(W_fldinst), Sp(W_fldrslt)}
PicturePieces ==
  {W_star, Sp(W_pict), Sp(W_blipuid), Sp(W_bliptag \o <<"1">>), Sp(W_picw \o <<"1">>),
   <<"a", "\n", "b">>}
CharacterPieces ==
  {W_u \o <<"8","2","1","2">>, Sp(W_u \o <<"8","2","1","2">>), W_hex \o <<"4","1">>,
   W_hex \o <<"A","4">>, W_hex \o <<"4","A">>,
   Sp(W_line), <<"\n">>, <<"?">>,
   W_star, <<BS,"r","t","f","1"," ">>, <<BS,"f","0"," ">>}

FormattingVocabulary ==
  Braces \cup PlainPieces \cup SkipPieces \cup {W_star, Sp(W_generator)} \cup FormattingPieces
FieldVocabulary == Braces \cup PlainPieces \cup SkipPieces \cup FieldPieces
PictureVocabulary == Braces \cup PlainPieces \cup SkipPieces \cup PicturePieces
CharacterVocabulary == Braces \cup PlainPieces \cup SkipPieces \cup CharacterPieces
\* \b, \i, \ul and \strike without a parameter and with the parameters
\* 1, 0, 01, 2 and -1, each in a group of its own, \b in the enclosing scope,
\* and a skipped group
OnOffVocabulary ==
  PlainPieces \cup {Sp(W_b), Sp(W_b \o <<"0">>), <<"{">> \o Sp(W_fonttbl) \o <<"a", "}">>} \cup
  {<<"{">> \o Sp(w) \o <<"}">> :
     w \in {W_b, W_b \o <<"0","1">>, W_i, W_i \o <<"1">>, W_i \o <<"-","1">>,
            W_ul, W_ul \o <<"2">>, W_strike, W_strike \o <<"0">>}}

NoShape == [stage |-> "none", inst |-> <<>>, rslt |-> <<>>, appended |-> FALSE]

\* reset() followed by openString(): nothing parsed yet
InitParser ==
  /\ content = <<>>
  /\ final = FALSE
  /\ lookahead = 0
  /\ pc = "parse"
  /\ error = "none"
  /\ curToken = NoToken
  /\ prevToken = NoToken
  /\ stateStack = <<>>
  /\ curState = EmptyDict
  /\ fullStateCache = EmptyDict
  /\ fldInst = <<>>
  /\ fldRslt = <<>>
  /\ blipUID = <<>>
  /\ pict = <<>>
  /\ events = <<>>
  /\ pre = NoSnapshot
  /\ saved = <<>>
  /\ shape = NoShape
  /\ rootWritten = FALSE
  /\ openParagraphs = 0

Init ==
  /\ InitParser
  /\ vocabulary = FormattingVocabulary
  /\ callbacks \in SUBSET {"onCloseParagraph"}

InitField ==
  /\ InitParser
  /\ vocabulary = FieldVocabulary
  /\ callbacks \in SUBSET {"onCloseParagraph"}

InitPicture ==
  /\ InitParser
  /\ vocabulary = PictureVocabulary
  /\ callbacks \in SUBSET {"onImage"}

InitCharacter ==
  /\ InitParser
  /\ vocabulary = CharacterVocabulary
  /\ callbacks \in SUBSET {"onCloseParagraph"}

InitOnOff ==
  /\ InitParser
  /\ vocabulary = OnOffVocabulary
  /\ callbacks \in SUBSET {"onCloseParagraph"}

\* The next token cannot be told from content alone: the tokenizer would
\* read past its end, or content is empty and the input may go on.
NeedsInput ==
  /\ ~final
  /\ \/ content = <<>>
     \/ GetNextToken(content, 0).err = "IndexError"

RECURSIVE OpenBraces(_)
\* the "{" tokens __getNextToken() cuts from s, up to the first call that raises
OpenBraces(s) ==
  IF s = <<>> THEN 0
  ELSE LET r == GetNextToken(s, 0) IN
       IF r.err # "none" THEN 0
       ELSE (IF r.token.type = OPEN_BRACE THEN 1 ELSE 0)
            + OpenBraces(Slice(s, r.curPos, Len(s)))

\* groups open or about to be opened
DepthAhead == Len(stateStack) + OpenBraces(content)

\* parse(), lines 807-841: the buffer the token is appended to when it is
\* read next, empty when it goes to none
TargetBuffer(token) ==
  IF pc # "read" \/ fullStateCache["groupSkip"] THEN <<>>
  ELSE IF token.type \notin {CONTROL_WORDORSYM, CHARACTER} THEN <<>>
  ELSE IF IsTrue(fullStateCache, "inFieldrslt") THEN fldRslt
  ELSE IF IsTrue(fullStateCache, "inFieldinst") THEN fldInst
  ELSE IF IsTrue(fullStateCache, "inBlipUID") THEN blipUID
  ELSE IF token.type = CONTROL_WORDORSYM THEN <<>>
  ELSE IF IsTrue(fullStateCache, "inPict") /\ ~IsSpace(token.text[1]) THEN pict
  ELSE <<>>

\* the token the tokenizer returns at the cursor; when the input read so far
\* stops inside a control word (IndexError), that beginning of a control
\* word; for "\" before white space line 124 raises ValueError and there is
\* no token, however the input continues
TokenAhead(s) ==
  LET r == GetNextToken(s, 0) IN
  IF r.err = "none" THEN r.token
  ELSE IF r.err = "IndexError" THEN Token(CONTROL_WORDORSYM, s)
  ELSE NoToken

\* the callbacks of the given name among evs
Calls(evs, name) == {i \in 1..Len(evs) : evs[i].cb = name}

\* openString(): the input, read piece by piece as the tokenizer needs it
Reveal ==
  /\ pc \in {"parse", "read"}
  /\ NeedsInput
  /\ lookahead < MaxLookahead
  /\ \E piece \in vocabulary :
       /\ piece = <<"{">> => DepthAhead < MaxDepth
       /\ piece \notin Braces => Len(TargetBuffer(TokenAhead(content \o piece))) < MaxBuf
       /\ piece = Sp(W_par) => openParagraphs < MaxOpen
       /\ content' = content \o piece
  /\ lookahead' = lookahead + 1
  /\ UNCHANGED <<final, config, pc, error, tokens, scopes, buffers, events, history>>

\* the input ends here
EndInput ==
  /\ pc \in {"parse", "read"}
  /\ NeedsInput
  /\ final' = TRUE
  /\ UNCHANGED <<content, lookahead, config, pc, error, tokens, scopes, buffers,
                 events, history>>

\* __getNextToken() at the cursor: content is the input from the cursor on
NextToken ==
  IF content = <<>>
  THEN [err |-> "none", token |-> Token(EOF, <<>>), curPos |-> 0]
  ELSE GetNextToken(content, 0)

\* parse(), lines 730-746: nothing to do for an empty input, else the next
\* token is read; pc is "again" when parse() was called before on this input
ParseEnter ==
  /\ pc \in {"parse", "again"}
  /\ ~NeedsInput
  /\ IF pc = "parse" /\ content = <<>>
     THEN /\ pc' = "done"
          /\ UNCHANGED <<content, error, tokens>>
     ELSE LET r == NextToken IN
          IF r.err # "none"
          THEN /\ pc' = "error"
               /\ error' = r.err
               /\ content' = Slice(content, r.curPos, Len(content))
               /\ UNCHANGED tokens
          ELSE /\ pc' = "init"
               /\ curToken' = r.token
               /\ prevToken' = NoToken
               /\ content' = Slice(content, r.curPos, Len(content))
               /\ UNCHANGED error
  /\ lookahead' = 0
  /\ UNCHANGED <<final, config, scopes, buffers, events, history>>

\* __initState
InitState ==
  LET m == ResetStateFormattingAttributes(Machine(EmptyDict, fullStateCache), stateStack, FALSE)
  IN Put(Put(m.cur, "groupSkip", FALSE), "inField", FALSE)

\* an initialisation that announces the root scope with onStateChange
ParseInitLoud ==
  /\ pc = "init"
  /\ curState' = InitState
  /\ fullStateCache' = InitState
  /\ events' = <<[cb |-> "onStateChange", old |-> fullStateCache, new |-> InitState],
                 [cb |-> "onOpenParagraph"]>>
  /\ openParagraphs' = openParagraphs + 1
  /\ pc' = "loop"
  /\ UNCHANGED <<input, config, error, tokens, stateStack, buffers, pre, saved,
                 shape, rootWritten>>

\* parse(), lines 750-753: the root scope, then the first paragraph
ParseInit ==
  /\ pc = "init"
  /\ curState' = InitState
  /\ fullStateCache' = InitState
  /\ events' = OpenParagraph(Machine(curState, fullStateCache)).events
  /\ openParagraphs' = openParagraphs + 1
  /\ pc' = "loop"
  /\ UNCHANGED <<input, config, error, tokens, stateStack, buffers, pre, saved,
                 shape, rootWritten>>

\* How far the tokens since the last "{" that can open such a group match
\* {\field{\*\fldinst I}{\fldrslt R}} with I and R made of plain characters;
\* full is the full state before the token, evs the callbacks the token
\* fired.  A \field after the "{" of a subgroup starts the match anew.
ShapeStep(sh, token, full, evs) ==
  LET parts == SplitControlWord(token)
      bare(w) == parts.word = w /\ parts.param = None
      appended == sh.appended \/ \E i \in 1..Len(evs) : evs[i].cb = "onAppendParagraph"
      to(stage) == [sh EXCEPT !.stage = stage, !.appended = appended]
  IN
  IF token.type = OPEN_BRACE THEN
    IF sh.stage = "field" THEN to("sub1")
    ELSE IF sh.stage = "mid" THEN to("sub2")
    ELSE IF ~full["groupSkip"] THEN [NoShape EXCEPT !.stage = "open"]
    ELSE NoShape
  ELSE IF token.type = CLOSE_BRACE THEN
    IF sh.stage = "inst" THEN to("mid")
    ELSE IF sh.stage = "rslt" THEN to("last")
    ELSE IF sh.stage = "last" THEN to("done")
    ELSE NoShape
  ELSE IF token.type = CONTROL_WORDORSYM THEN
    IF sh.stage = "open" /\ bare(W_field) THEN to("field")
    ELSE IF sh.stage \in {"sub1", "sub2"} /\ bare(W_field)
      THEN [NoShape EXCEPT !.stage = "field"]
    ELSE IF sh.stage = "sub1" /\ token.text = W_star THEN to("star")
    ELSE IF sh.stage = "star" /\ bare(W_fldinst) THEN to("inst")
    ELSE IF sh.stage = "sub2" /\ bare(W_fldrslt) THEN to("rslt")
    ELSE NoShape
  ELSE
    IF sh.stage = "inst" THEN [to("inst") EXCEPT !.inst = @ \o token.text]
    ELSE IF sh.stage = "rslt" THEN [to("rslt") EXCEPT !.rslt = @ \o token.text]
    ELSE NoShape

\* a pop at the wrong end of the stack
PopOldest(stack) == [state |-> stack[1], stack |-> SubSeq(stack, 2, Len(stack))]

\* a pop that leaves the scope on the stack
PopKeep(stack) == [state |-> stack[Len(stack)], stack |-> stack]

\* stateStack.pop(): the scope returned and the stack left
Pop(stack) == [state |-> stack[Len(stack)], stack |-> SubSeq(stack, 1, Len(stack) - 1)]

\* parse(), lines 758-760: "{" pushes the current scope and opens an empty one
ParseOpenBrace ==
  /\ pc = "loop"
  /\ curToken.type = OPEN_BRACE
  /\ pre' = Snapshot
  /\ stateStack' = Append(stateStack, curState)
  /\ curState' = EmptyDict
  /\ saved' = Append(saved, fullStateCache)
  /\ shape' = ShapeStep(shape, curToken, fullStateCache, <<>>)
  /\ events' = <<>>
  /\ pc' = "next"
  /\ UNCHANGED <<input, config, error, tokens, fullStateCache, buffers, rootWritten,
                 openParagraphs>>

\* a test that lets the end of a \field group fire onStateChange
ClosesQuietlyButField(oldStateCopy) ==
  \/ IsTrue(oldStateCopy, "groupSkip")
  \/ IsTrue(oldStateCopy, "inBlipUID")
  \/ IsTrue(oldStateCopy, "inPict")

\* a test on the full state, flags of the enclosing scopes included
ClosesQuietlyInherited(oldStateCopy) ==
  \E k \in {"groupSkip", "inField", "inBlipUID", "inPict"} : IsTrue(fullStateCache, k)

\* parse(), lines 772-784: the popped scope is one whose end fires no
\* onStateChange
ClosesQuietly(oldStateCopy) ==
  \/ IsTrue(oldStateCopy, "groupSkip")
  \/ IsTrue(oldStateCopy, "inField")
  \/ IsTrue(oldStateCopy, "inBlipUID")
  \/ IsTrue(oldStateCopy, "inPict")

\* a pop that lets a "}" without its "{" pass
PopFromEmptyIgnored ==
  /\ pc' = "next"
  /\ events' = <<>>
  /\ shape' = NoShape
  /\ UNCHANGED <<error, scopes, buffers, saved, rootWritten>>

\* parse(), line 766: list.pop() on the empty stack raises IndexError and
\* parse() ends there
PopFromEmpty ==
  /\ pc' = "error"
  /\ error' = "IndexError"
  /\ events' = <<>>
  /\ shape' = NoShape
  /\ UNCHANGED <<scopes, buffers, saved, rootWritten>>

\* parse(), lines 763-803: "}" pops the scope and flushes its destination
ParseCloseBrace ==
  /\ pc = "loop"
  /\ curToken.type = CLOSE_BRACE
  /\ pre' = Snapshot
  /\ IF stateStack = <<>>
     THEN PopFromEmpty
     ELSE
       LET oldStateCopy == curState
           oldStateFull == fullStateCache
           popped == Pop(stateStack)
           m0 == Machine(popped.state, CacheFullState(popped.state, popped.stack))
           m1 == IF ~ClosesQuietly(oldStateCopy)
                 THEN Fire(m0, [cb |-> "onStateChange", old |-> oldStateFull, new |-> m0.full])
                 ELSE m0
           isField == IsTrue(oldStateCopy, "inField")
           isBlip == IsTrue(oldStateCopy, "inBlipUID")
           isPict == IsTrue(oldStateCopy, "inPict")
           m2 == IF isField THEN ParseField(m1, fldInst, fldRslt) ELSE m1
           m3 == IF isBlip THEN ParseImageID(m2, popped.stack, blipUID) ELSE m2
           m4 == IF m3.err = "none" /\ isPict
                 THEN ParseImage(m3, oldStateCopy["pictAttributes"], pict, callbacks)
                 ELSE m3
       IN /\ stateStack' = popped.stack
          /\ curState' = m4.cur
          /\ fullStateCache' = m4.full
          /\ events' = m4.events
          /\ fldInst' = (IF isField THEN <<>> ELSE fldInst)
          /\ fldRslt' = (IF isField THEN <<>> ELSE fldRslt)
          /\ blipUID' = (IF isBlip /\ m3.err = "none" THEN <<>> ELSE blipUID)
          /\ pict' = (IF isPict /\ m4.err = "none" THEN <<>> ELSE pict)
          /\ error' = m4.err
          /\ pc' = (IF m4.err = "none" THEN "next" ELSE "error")
          /\ saved' = SubSeq(saved, 1, Len(saved) - 1)
          /\ shape' = ShapeStep(shape, curToken, fullStateCache, m4.events)
          /\ rootWritten' = (rootWritten \/ (popped.stack = <<>> /\ isBlip))
  /\ UNCHANGED <<input, config, tokens, openParagraphs>>

\* a test that finds no group skipped
SkippingNever(fullState) == FALSE

\* parse(), line 807: the full state says the group is skipped
Skipping(fullState) == fullState["groupSkip"]

\* parse(), line 807: a token inside a skipped group is dropped
ParseSkip ==
  /\ pc = "loop"
  /\ curToken.type \notin {OPEN_BRACE, CLOSE_BRACE, EOF}
  /\ Skipping(fullStateCache)
  /\ pre' = Snapshot
  /\ events' = <<>>
  /\ shape' = ShapeStep(shape, curToken, fullStateCache, <<>>)
  /\ pc' = "next"
  /\ UNCHANGED <<input, config, error, tokens, scopes, buffers, saved, rootWritten,
                 openParagraphs>>

\* parse(), lines 815-841: where a token outside skipped groups goes
ParseRoute ==
  /\ pc = "loop"
  /\ curToken.type \notin {OPEN_BRACE, CLOSE_BRACE, EOF}
  /\ ~Skipping(fullStateCache)
  /\ pre' = Snapshot
  /\ IF IsTrue(fullStateCache, "inFieldrslt") THEN
       /\ fldRslt' = fldRslt \o curToken.text
       /\ events' = <<>>
       /\ pc' = "next"
       /\ UNCHANGED <<error, scopes, fldInst, blipUID, pict, rootWritten>>
     ELSE IF IsTrue(fullStateCache, "inFieldinst") THEN
       /\ fldInst' = fldInst \o curToken.text
       /\ events' = <<>>
       /\ pc' = "next"
       /\ UNCHANGED <<error, scopes, fldRslt, blipUID, pict, rootWritten>>
     ELSE IF IsTrue(fullStateCache, "inBlipUID") THEN
       /\ blipUID' = blipUID \o curToken.text
       /\ events' = <<>>
       /\ pc' = "next"
       /\ UNCHANGED <<error, scopes, fldInst, fldRslt, pict, rootWritten>>
     ELSE IF curToken.type = CONTROL_WORDORSYM THEN
       \E tokenParts \in {SplitControlWord(curToken)} :
       \E m \in {ExecuteControl(Machine(curState, fullStateCache), stateStack, prevToken,
                                tokenParts.word, tokenParts.param, callbacks)} :
          /\ curState' = m.cur
          /\ fullStateCache' = m.full
          /\ events' = m.events
          /\ error' = m.err
          /\ pc' = (IF m.err = "none" THEN "next" ELSE "error")
          /\ rootWritten' = (rootWritten \/ stateStack = <<>>)
          /\ UNCHANGED <<stateStack, buffers>>
     ELSE IF IsTrue(fullStateCache, "inPict") /\ ~IsSpace(curToken.text[1]) THEN
       /\ pict' = pict \o curToken.text
       /\ events' = <<>>
       /\ pc' = "next"
       /\ UNCHANGED <<error, scopes, fldInst, fldRslt, blipUID, rootWritten>>
     ELSE
       /\ events' = (IF ~fullStateCache["inField"] /\ curToken.text # <<"\n">>
                     THEN AppendToCurrentParagraph(Machine(curState, fullStateCache),
                                                   curToken.text).events
                     ELSE <<>>)
       /\ pc' = "next"
       /\ UNCHANGED <<error, scopes, buffers, rootWritten>>
  /\ shape' = ShapeStep(shape, curToken, fullStateCache, events')
  /\ openParagraphs' = openParagraphs + Cardinality(Calls(events', "onOpenParagraph"))
                                      - Cardinality(Calls(events', "onCloseParagraph"))
  /\ UNCHANGED <<input, config, tokens, saved>>

\* parse(), line 755: the loop ends at EOF
ParseEOF ==
  /\ pc = "loop"
  /\ curToken.type = EOF
  /\ pc' = "done"
  /\ events' = <<>>
  /\ pre' = NoSnapshot
  /\ UNCHANGED <<input, config, error, tokens, scopes, buffers, saved, shape,
                 rootWritten, openParagraphs>>

\* parse(), line 843: the token processed becomes the previous one
SetPrevToken ==
  /\ pc = "next"
  /\ prevToken' = curToken
  /\ pc' = "read"
  /\ events' = <<>>
  /\ pre' = NoSnapshot
  /\ UNCHANGED <<input, config, error, curToken, scopes, buffers, saved, shape,
                 rootWritten, openParagraphs>>

\* a tokenizer call that returns the token and leaves the cursor where it was
AdvanceInPlace ==
  /\ pc = "read"
  /\ ~NeedsInput
  /\ LET r == NextToken IN
     IF r.err # "none"
     THEN /\ pc' = "error"
          /\ error' = r.err
          /\ UNCHANGED <<content, curToken>>
     ELSE /\ pc' = "loop"
          /\ curToken' = r.token
          /\ content' = content
          /\ UNCHANGED error
  /\ lookahead' = 0
  /\ UNCHANGED <<final, config, prevToken, scopes, buffers, events, history>>

\* parse(), line 844: the next token is read
Advance ==
  /\ pc = "read"
  /\ ~NeedsInput
  /\ LET r == NextToken IN
     IF r.err # "none"
     THEN /\ pc' = "error"
          /\ error' = r.err
          /\ content' = Slice(content, r.curPos, Len(content))
          /\ UNCHANGED curToken
     ELSE /\ pc' = "loop"
          /\ curToken' = r.token
          /\ content' = Slice(content, r.curPos, Len(content))
          /\ UNCHANGED error
  /\ lookahead' = 0
  /\ UNCHANGED <<final, config, prevToken, scopes, buffers, events, history>>

Next ==
  \/ Reveal
  \/ EndInput
  \/ ParseEnter
  \/ ParseInit
  \/ ParseOpenBrace
  \/ ParseCloseBrace
  \/ ParseSkip
  \/ ParseRoute
  \/ ParseEOF
  \/ SetPrevToken
  \/ Advance

\* inputs of braces, text, a skipped destination and formatting controls
Spec == Init /\ [][Next]_vars
\* inputs with field groups
SpecField == InitField /\ [][Next]_vars
\* inputs with pictures and picture identifiers
SpecPicture == InitPicture /\ [][Next]_vars
\* inputs with special characters
SpecCharacter == InitCharacter /\ [][Next]_vars
\* inputs with the four on/off attributes and their parameters
SpecOnOff == InitOnOff /\ [][Next]_vars

\* ------------------------------------------------------------------------
\* The parser on a whole input

WholeVocabulary ==
  Braces \cup PlainPieces \cup SkipPieces \cup {Sp(W_b), Sp(W_par), W_hex \o <<"4">>, <<BS>>}

RECURSIVE Inputs(_, _)
\* the strings made of at most n pieces
Inputs(pieces, n) ==
  IF n = 0 THEN {<<>>}
  ELSE LET shorter == Inputs(pieces, n - 1) IN
       shorter \cup {s \o piece : s \in shorter, piece \in pieces}

\* reset() followed by openString() with the whole input: the cursor is at
\* its start and no more input comes
InitWhole ==
  /\ vocabulary = WholeVocabulary
  /\ callbacks \in SUBSET {"onCloseParagraph"}
  /\ content \in Inputs(WholeVocabulary, MaxPieces)
  /\ final = TRUE
  /\ lookahead = 0
  /\ pc = "parse"
  /\ error = "none"
  /\ curToken = NoToken
  /\ prevToken = NoToken
  /\ stateStack = <<>>
  /\ curState = EmptyDict
  /\ fullStateCache = EmptyDict
  /\ fldInst = <<>>
  /\ fldRslt = <<>>
  /\ blipUID = <<>>
  /\ pict = <<>>
  /\ events = <<>>
  /\ pre = NoSnapshot
  /\ saved = <<>>
  /\ shape = NoShape
  /\ rootWritten = FALSE
  /\ openParagraphs = 0

\* parse(): one thread that runs until it returns or raises
NextParse ==
  \/ ParseEnter
  \/ ParseInit
  \/ ParseOpenBrace
  \/ ParseCloseBrace
  \/ ParseSkip
  \/ ParseRoute
  \/ ParseEOF
  \/ SetPrevToken
  \/ Advance

\* parse() on a whole input, never suspended for ever
SpecWhole == InitWhole /\ [][NextParse]_vars /\ WF_vars(NextParse)

\* parse() called again after it returned or raised, with no reset() or
\* openString() in between (lines 730-743): the cursor, the stack and the
\* tokens are as the earlier call left them, the four buffers are new locals.
\* Nothing happens when the input is empty.
ParseAgain ==
  /\ pc \in {"done", "error"}
  /\ ~(pc = "done" /\ curToken = NoToken)
  /\ openParagraphs < MaxOpen
  /\ pc' = "again"
  /\ error' = "none"
  /\ fldInst' = <<>>
  /\ fldRslt' = <<>>
  /\ blipUID' = <<>>
  /\ pict' = <<>>
  /\ events' = <<>>
  /\ pre' = NoSnapshot
  /\ rootWritten' = (rootWritten /\ stateStack # <<>>)
  /\ UNCHANGED <<input, config, tokens, scopes, saved, shape, openParagraphs>>

\* parse() on a whole input, called again any number of times
SpecAgain == InitWhole /\ [][NextParse \/ ParseAgain]_vars

\* ------------------------------------------------------------------------
\* The tokenizer alone

\* openString() with any short string over the characters the tokenizer
\* tells apart; content is the whole input and the cursor is at its start
InitTokenizer ==
  /\ content \in UNION {[1..n -> {BS, "a", "1", "-", " ", "'", "{", "?"}] : n \in 1..MaxInput}
  /\ final = TRUE
  /\ lookahead = 0
  /\ vocabulary = {}
  /\ callbacks = {}
  /\ pc = "read"
  /\ error = "none"
  /\ curToken = NoToken
  /\ prevToken = NoToken
  /\ stateStack = <<>>
  /\ curState = EmptyDict
  /\ fullStateCache = EmptyDict
  /\ fldInst = <<>>
  /\ fldRslt = <<>>
  /\ blipUID = <<>>
  /\ pict = <<>>
  /\ events = <<>>
  /\ pre = NoSnapshot
  /\ saved = <<>>
  /\ shape = NoShape
  /\ rootWritten = FALSE
  /\ openParagraphs = 0

\* one call of __getNextToken() at the cursor, until it returns EOF or raises
GetNextTokenCall ==
  /\ pc = "read"
  /\ LET r == NextToken IN
     IF r.err # "none"
     THEN /\ pc' = "error"
          /\ error' = r.err
          /\ content' = Slice(content, r.curPos, Len(content))
          /\ UNCHANGED tokens
     ELSE /\ pc' = (IF r.token.type = EOF THEN "done" ELSE "read")
          /\ curToken' = r.token
          /\ prevToken' = curToken
          /\ content' = Slice(content, r.curPos, Len(content))
          /\ UNCHANGED error
  /\ UNCHANGED <<final, lookahead, config, scopes, buffers, events, history>>

SpecTokenizer == InitTokenizer /\ [][GetNextTokenCall]_vars

\* ------------------------------------------------------------------------
\* Scoping

\* C1: after every token processed, the cached full state is the scope stack
\* folded from the root up to the current scope, each scope overriding the
\* keys it holds.
C1_CacheIsFold ==
  LET RECURSIVE Fold(_)
      Fold(records) ==
        IF records = <<>> THEN EmptyDict
        ELSE LET base == Fold(SubSeq(records, 1, Len(records) - 1))
                 top == records[Len(records)]
             IN [a \in (DOMAIN base) \cup (DOMAIN top) |->
                   IF a \in DOMAIN top THEN top[a] ELSE base[a]]
  IN pc = "next" => fullStateCache = Fold(stateStack \o <<curState>>)

\* a control word has just written the alignment into a scope two groups deep
\* that inherits bold from the group around it
C1_Witness ==
  /\ pc = "next"
  /\ curToken.type = CONTROL_WORDORSYM
  /\ Len(stateStack) = 2
  /\ "alignment" \in DOMAIN curState
  /\ "bold" \notin DOMAIN curState
  /\ IsTrue(stateStack[2], "bold")
  /\ fullStateCache["bold"]

\* C2: right after the "}" of a group every formatting attribute resolves to
\* the value it had right before the group's "{".
C2_GroupRestoresFormatting ==
  (pc = "next" /\ curToken.type = CLOSE_BRACE) =>
    \A A \in FormattingKeys :
      /\ A \in DOMAIN fullStateCache
      /\ fullStateCache[A] = pre.saved[Len(pre.saved)][A]

\* a group that changed bold and the alignment has just been closed
C2_Witness ==
  /\ pc = "next"
  /\ curToken.type = CLOSE_BRACE
  /\ pre.full["bold"] # fullStateCache["bold"]
  /\ pre.full["alignment"] # fullStateCache["alignment"]

\* C3 as stated: at EOF of an input with balanced braces the stack is empty
\* and the root scope is the record initialization installed.
C3_RootIsInitialAtEOF ==
  (pc = "done" /\ curToken.type = EOF /\ saved = <<>>) =>
    /\ stateStack = <<>>
    /\ curState = InitState

\* C3, amended: at EOF of an input with balanced braces the stack is empty and
\* the root scope still holds every key of the initial record; it is the
\* initial record when no control word ran outside all groups and no \blipuid
\* group ended outside all other groups.
C3_RootAtEOF ==
  (pc = "done" /\ curToken.type = EOF /\ saved = <<>>) =>
    /\ stateStack = <<>>
    /\ DOMAIN InitState \subseteq DOMAIN curState
    /\ ~rootWritten => curState = InitState

\* the input ended right after the "}" of a group, nothing ran outside groups
C3_Witness ==
  /\ pc = "done"
  /\ curToken.type = EOF
  /\ prevToken.type = CLOSE_BRACE
  /\ saved = <<>>
  /\ ~rootWritten
  /\ curState = InitState

\* ------------------------------------------------------------------------
\* Callbacks

\* parse(), lines 807-831: the token just processed was handed to
\* __executeControl
Dispatched ==
  /\ pc \in {"next", "error"}
  /\ pre.taken
  /\ curToken.type = CONTROL_WORDORSYM
  /\ ~pre.full["groupSkip"]
  /\ ~IsTrue(pre.full, "inFieldrslt")
  /\ ~IsTrue(pre.full, "inFieldinst")
  /\ ~IsTrue(pre.full, "inBlipUID")

\* C4: a token that changes the full state in destination variables only,
\* leaving every formatting attribute as it was, fires no onStateChange.
C4_DestinationChangeIsQuiet ==
  (/\ pc = "next"
   /\ fullStateCache # pre.full
   /\ \A A \in FormattingKeys : fullStateCache[A] = pre.full[A])
  => Calls(events, "onStateChange") = {}

\* C5: a formatting control word handed to __executeControl fires
\* onStateChange exactly once, with the full state before and after, and after
\* \plain the current scope holds the five formatting attributes at their
\* defaults.
C5_FormattingFiresOnce ==
  LET word == SplitControlWord(curToken).word
      FormattingWords ==
        {W_i, W_b, W_ul, W_strike, W_ql, W_qr, W_qc, W_qd, W_qj, W_qt, W_plain}
  IN (Dispatched /\ word \in FormattingWords) =>
       /\ events = <<[cb |-> "onStateChange", old |-> pre.full, new |-> fullStateCache]>>
       /\ word = W_plain =>
            \A A \in FormattingKeys :
              A \in DOMAIN curState /\ curState[A] = StateFormattingAttributes[A]

\* C6: with onCloseParagraph registered, the first paragraph is opened once
\* before any token is interpreted, a \par handed to __executeControl fires
\* onCloseParagraph then onOpenParagraph and nothing else, one paragraph is
\* open at every point from then on, and EOF fires nothing.
C6_ParagraphEvents ==
  "onCloseParagraph" \in callbacks =>
    /\ (pc = "loop" /\ prevToken = NoToken) => events = <<[cb |-> "onOpenParagraph"]>>
    /\ (Dispatched /\ SplitControlWord(curToken).word = W_par) =>
         events = <<[cb |-> "onCloseParagraph"], [cb |-> "onOpenParagraph"]>>
    /\ fullStateCache # EmptyDict => openParagraphs = 1
    /\ pc = "done" => events = <<>>

\* ------------------------------------------------------------------------
\* Fields

\* C7: when the "}" of a group {\field{\*\fldinst I}{\fldrslt R}} outside
\* skipped groups has been processed, onField was called once, with I and R,
\* and no token of the group fired onAppendParagraph.
C7_PlainFieldGroup ==
  (pc \in {"next", "error"} /\ pre.taken /\ shape.stage = "done") =>
    /\ events = <<[cb |-> "onField", fldinst |-> shape.inst, fldrslt |-> shape.rslt]>>
    /\ ~shape.appended

\* C8: onField fires only while the "}" of a scope that holds inField is
\* processed, and that "}" fires onField, with the two buffers, and nothing
\* else.
C8_FieldFiresAtClose ==
  LET closesField ==
        /\ pc \in {"next", "error"}
        /\ pre.taken
        /\ curToken.type = CLOSE_BRACE
        /\ pre.stack # <<>>
        /\ IsTrue(pre.cur, "inField")
  IN /\ closesField =>
          events = <<[cb |-> "onField", fldinst |-> pre.fldInst, fldrslt |-> pre.fldRslt]>>
     /\ Calls(events, "onField") # {} => closesField

\* the "}" of a \field group whose instruction and result were both read
C8_Witness ==
  /\ pc = "next"
  /\ curToken.type = CLOSE_BRACE
  /\ IsTrue(pre.cur, "inField")
  /\ pre.fldInst # <<>>
  /\ pre.fldRslt # <<>>
  /\ Calls(events, "onField") = {1}

\* ------------------------------------------------------------------------
\* Skipped groups

\* C9: a skipped destination word right after "{" (or \generator, \pgdsctbl
\* right after \*) sets groupSkip in its scope; while a scope on the stack
\* holds groupSkip the full state has it; a non-brace token read then fires
\* nothing and changes no scope and no buffer; and the "}" of the scope that
\* set it gives groupSkip back the value it had before the scope's "{".
C9_SkippedGroupIsDiscarded ==
  LET word == SplitControlWord(curToken).word
      startsSkip ==
        \/ prevToken.type = OPEN_BRACE /\ word \in SkippedDestinations
        \/ prevToken.text = W_star /\ word \in {W_generator, W_pgdsctbl}
      skipped == pre.taken /\ pre.full["groupSkip"]
  IN /\ (pc = "next" /\ Dispatched /\ startsSkip) =>
          IsTrue(curState, "groupSkip") /\ fullStateCache["groupSkip"]
     /\ (\E i \in 1..Len(stateStack) : IsTrue(stateStack[i], "groupSkip")) =>
          fullStateCache["groupSkip"]
     /\ (pc \in {"next", "error"} /\ skipped
           /\ curToken.type \notin {OPEN_BRACE, CLOSE_BRACE}) =>
          /\ pc = "next"
          /\ events = <<>>
          /\ <<stateStack, curState, fullStateCache>> = <<pre.stack, pre.cur, pre.full>>
          /\ <<fldInst, fldRslt, blipUID, pict>>
               = <<pre.fldInst, pre.fldRslt, pre.blipUID, pre.pict>>
     /\ (pc = "next" /\ curToken.type = CLOSE_BRACE /\ IsTrue(pre.cur, "groupSkip")) =>
          /\ events = <<>>
          /\ fullStateCache["groupSkip"] = pre.saved[Len(pre.saved)]["groupSkip"]

\* a \par read in a group nested in a skipped \fonttbl group was dropped
C9_Witness ==
  /\ pc = "next"
  /\ SplitControlWord(curToken).word = W_par
  /\ Len(stateStack) = 2
  /\ IsTrue(stateStack[2], "groupSkip")
  /\ ~IsTrue(curState, "groupSkip")
  /\ events = <<>>

\* ------------------------------------------------------------------------
\* Characters

\* C10: a \uN with a valid code point N, read after some other token and
\* handed to __executeControl, appends exactly the character N; the plain
\* character that follows it is its fallback and is not appended.
C10_FallbackIsConsumed ==
  LET IsUnicode(token) ==
        /\ token.type = CONTROL_WORDORSYM
        /\ SplitControlWord(token).word = W_u
        /\ SplitControlWord(token).param # None
        /\ Int10(SplitControlWord(token).param).err = "none"
        /\ ChrInRange(Int10(SplitControlWord(token).param).value)
      N == Int10(SplitControlWord(curToken).param).value
      toParagraph ==
        /\ pc \in {"next", "error"}
        /\ pre.taken
        /\ ~pre.full["groupSkip"]
        /\ \A v \in {"inFieldrslt", "inFieldinst", "inBlipUID", "inPict", "inField"} :
             ~IsTrue(pre.full, v)
  IN /\ (toParagraph /\ IsUnicode(curToken) /\ prevToken # NoToken) =>
          events = <<[cb |-> "onAppendParagraph", string |-> <<Chr(N)>>]>>
     /\ (toParagraph /\ curToken.type = CHARACTER /\ IsUnicode(prevToken)) =>
          events = <<>>

\* C11: a \'XX escape read right after a \u control word, with or without
\* the space that delimits the \u, raises nothing, fires no callback and
\* leaves the scopes as they were.
C11_FallbackEscapeIsDropped ==
  (/\ pc \in {"next", "error"}
   /\ pre.taken
   /\ curToken.type = CONTROL_WORDORSYM
   /\ SubSeq(curToken.text, 1, 2) = W_hex
   /\ prevToken.type = CONTROL_WORDORSYM
   /\ SplitControlWord(prevToken).word = W_u)
  => /\ pc = "next"
     /\ events = <<>>
     /\ <<stateStack, curState, fullStateCache>> = <<pre.stack, pre.cur, pre.full>>

\* a \'41 handed to __executeControl right after a \u8212 and its space
C11_Witness ==
  /\ Dispatched
  /\ curToken.text = W_hex \o <<"4","1">>
  /\ prevToken.text = Sp(W_u \o <<"8","2","1","2">>)
  /\ events = <<>>

\* C12: a \'h or \'hh escape handed to __executeControl after a token that
\* is not a \u control word appends exactly one character, the one whose
\* code point is the base-16 value of its digits.
C12_HexEscapeAppendsItsValue ==
  (/\ Dispatched
   /\ SubSeq(curToken.text, 1, 2) = W_hex
   /\ Len(curToken.text) > 2
   /\ prevToken # NoToken
   /\ ~(prevToken.type = CONTROL_WORDORSYM /\ SplitControlWord(prevToken).word = W_u))
  => /\ pc = "next"
     /\ events = <<[cb |-> "onAppendParagraph",
                    string |-> <<Chr(HexValue(SubSeq(curToken.text, 3, Len(curToken.text))))>>]>>

\* C14: outside every special destination a literal newline character
\* appends nothing and every other character appends itself, once; a \line
\* handed to __executeControl appends the one character U+000A.
C14_NewlineOnlyFromLine ==
  LET Outside ==
        /\ ~pre.full["groupSkip"]
        /\ ~pre.full["inField"]
        /\ \A k \in {"inFieldinst", "inFieldrslt", "inPict", "inBlipUID"} : ~IsTrue(pre.full, k)
  IN /\ (pc \in {"next", "error"} /\ pre.taken /\ curToken.type = CHARACTER /\ Outside) =>
          /\ pc = "next"
          /\ curToken.text = <<"\n">> => Calls(events, "onAppendParagraph") = {}
          /\ curToken.text # <<"\n">> =>
               events = <<[cb |-> "onAppendParagraph", string |-> curToken.text]>>
     /\ (Dispatched /\ SplitControlWord(curToken).word = W_line) =>
          /\ pc = "next"
          /\ events = <<[cb |-> "onAppendParagraph", string |-> <<"\n">>]>>

\* ------------------------------------------------------------------------
\* Errors

\* C15: a "}" read while the stack of saved scopes is empty ends parse() with
\* an error: the token fires nothing, the scope, the full state and the
\* buffers stay as they were, and no step follows.
C15_UnmatchedCloseAborts ==
  /\ [](/\ pc \in {"next", "error"}
        /\ pre.taken
        /\ curToken.type = CLOSE_BRACE
        /\ pre.stack = <<>>
        => /\ pc = "error"
           /\ error # "none"
           /\ events = <<>>
           /\ <<stateStack, curState, fullStateCache>> = <<pre.stack, pre.cur, pre.full>>
           /\ <<fldInst, fldRslt, blipUID, pict>>
                = <<pre.fldInst, pre.fldRslt, pre.blipUID, pre.pict>>)
  /\ [][pc # "error"]_vars

\* the "}" after a complete group and a character
C15_Witness ==
  /\ pc = "error"
  /\ pre.taken
  /\ curToken.type = CLOSE_BRACE
  /\ prevToken.type = CHARACTER
  /\ curState = InitState
  /\ "onCloseParagraph" \in callbacks

\* C16: a call of the tokenizer raises only when the input left at the
\* cursor is a "\" alone, so that "\" before a space, and an input ending
\* right after a control word, its parameter or a \' escape, raise nothing;
\* the token returned for "\" and a character that is neither a letter nor
\* "'" is made of those two characters.
C16_TokenizerRaisesOnlyOnLoneBackslash ==
  /\ [][pc' = "error" => content = <<BS>>]_vars
  /\ [](/\ pc \in {"read", "done"}
        /\ curToken.type = CONTROL_WORDORSYM
        /\ ~IsAlpha(curToken.text[2])
        /\ curToken.text[2] # "'"
        => Len(curToken.text) = 2)

\* C17: a control word or symbol the dispatch does not know (\rtf1, \f0,
\* \*), handed to __executeControl at any position of the input, the first
\* included, raises nothing, fires nothing and leaves the scopes and the
\* buffers as they were.
C17_UnknownControlIsInert ==
  (/\ Dispatched
   /\ SplitControlWord(curToken).word \in {W_star, <<BS,"r","t","f">>, <<BS,"f">>})
  => /\ pc = "next"
     /\ events = <<>>
     /\ <<stateStack, curState, fullStateCache>> = <<pre.stack, pre.cur, pre.full>>
     /\ <<fldInst, fldRslt, blipUID, pict>>
          = <<pre.fldInst, pre.fldRslt, pre.blipUID, pre.pict>>

\* ------------------------------------------------------------------------
\* State changes

\* C18: no token fires onStateChange more than once, whether it is a "}" that
\* also flushes a field, an image or an image identifier, or a \pict, which
\* writes two destination variables.
C18_OneStateChangePerToken ==
  Cardinality(Calls(events, "onStateChange")) <= 1

\* the "}" of a group that held a \bliptag alone: one onStateChange, and the
\* identifier goes with the scope
C18_Witness ==
  /\ pc = "next"
  /\ curToken.type = CLOSE_BRACE
  /\ "blipUID" \in DOMAIN pre.cur
  /\ "blipUID" \notin DOMAIN fullStateCache
  /\ Calls(events, "onStateChange") = {1}

\* C19: a "}" that pops a scope fires onStateChange exactly once, with the
\* full state before the pop and the one recomputed after it, when the popped
\* scope itself sets none of groupSkip, inField, inBlipUID, inPict, and does
\* not fire it otherwise; flags of the enclosing scopes do not count.
C19_CloseFiresUnlessDestination ==
  (/\ pc \in {"next", "error"}
   /\ pre.taken
   /\ curToken.type = CLOSE_BRACE
   /\ pre.stack # <<>>)
  => LET own == \E k \in {"groupSkip", "inField", "inBlipUID", "inPict"} : IsTrue(pre.cur, k)
         popped == Pop(pre.stack)
         fired == Calls(events, "onStateChange")
     IN IF own
        THEN fired = {}
        ELSE \E i \in 1..Len(events) :
               /\ fired = {i}
               /\ events[i].old = pre.full
               /\ events[i].new = CacheFullState(popped.state, popped.stack)

\* the "}" of a group nested in a skipped group
C19_Witness ==
  /\ pc = "next"
  /\ curToken.type = CLOSE_BRACE
  /\ pre.full["groupSkip"]
  /\ ~IsTrue(pre.cur, "groupSkip")
  /\ Calls(events, "onStateChange") = {1}
  /\ fullStateCache["groupSkip"]

\* ------------------------------------------------------------------------
\* Image identifiers

\* C20: a \blipuid handed to __executeControl right after \* sets groupSkip in
\* the current scope when the full state already holds a blipUID, and
\* inBlipUID otherwise; the "}" of a group that set inBlipUID stores the value
\* of the hex text read in the enclosing scope and fires no onStateChange, and
\* the "}" of one that set groupSkip leaves the blipUID of the full state as
\* it was before the group.
C20_BlipUIDKeepsFirstIdentifier ==
  /\ (/\ Dispatched
      /\ SplitControlWord(curToken).word = W_blipuid
      /\ prevToken # NoToken
      /\ prevToken.text = W_star)
     => /\ pc = "next"
        /\ IF "blipUID" \in DOMAIN pre.full
           THEN IsTrue(curState, "groupSkip") /\ ~IsTrue(curState, "inBlipUID")
           ELSE IsTrue(curState, "inBlipUID") /\ ~IsTrue(curState, "groupSkip")
  /\ (/\ pc = "next"
      /\ curToken.type = CLOSE_BRACE
      /\ IsTrue(pre.cur, "inBlipUID"))
     => /\ Calls(events, "onStateChange") = {}
        /\ curState = Put(Pop(pre.stack).state, "blipUID", HexValue(pre.blipUID))
  /\ (/\ pc = "next"
      /\ curToken.type = CLOSE_BRACE
      /\ IsTrue(pre.cur, "groupSkip")
      /\ "blipUID" \in DOMAIN pre.saved[Len(pre.saved)])
     => /\ "blipUID" \in DOMAIN fullStateCache
        /\ fullStateCache["blipUID"] = pre.saved[Len(pre.saved)]["blipUID"]

\* ------------------------------------------------------------------------
\* Field buffers

\* C21: a \* read while the current scope has inFieldinst ends the
\* instruction: inFieldinst becomes false in that scope, nothing fires, and
\* neither the \* nor the tokens after it in the group go to the
\* field-instruction buffer.
C21_StarEndsInstruction ==
  /\ (/\ pc \in {"next", "error"}
      /\ pre.taken
      /\ curToken.text = W_star
      /\ IsTrue(pre.cur, "inFieldinst"))
     => /\ pc = "next"
        /\ events = <<>>
        /\ "inFieldinst" \in DOMAIN curState
        /\ curState["inFieldinst"] = FALSE
        /\ fldInst = pre.fldInst
  /\ (/\ pc \in {"next", "error"}
      /\ pre.taken
      /\ prevToken # NoToken
      /\ prevToken.text = W_star
      /\ curToken.type \in {CONTROL_WORDORSYM, CHARACTER}
      /\ "inFieldinst" \in DOMAIN pre.cur)
     => fldInst = pre.fldInst

\* C22: while groupSkip is false and inFieldrslt is true in the full state
\* (or else inFieldinst, or else inBlipUID), a token that is not a brace,
\* control words included, is appended whole to the buffer of that
\* destination and to no other, fires nothing and changes no scope.
C22_DestinationTakesTokensVerbatim ==
  LET Set(k) == k \in DOMAIN pre.full /\ pre.full[k] = TRUE
      target == IF Set("inFieldrslt") THEN 2 ELSE IF Set("inFieldinst") THEN 1 ELSE 3
      before == <<pre.fldInst, pre.fldRslt, pre.blipUID, pre.pict>>
  IN (/\ pc \in {"next", "error"}
      /\ pre.taken
      /\ curToken.type \in {CONTROL_WORDORSYM, CHARACTER}
      /\ ~pre.full["groupSkip"]
      /\ Set("inFieldrslt") \/ Set("inFieldinst") \/ Set("inBlipUID"))
     => /\ pc = "next"
        /\ events = <<>>
        /\ <<stateStack, curState, fullStateCache>> = <<pre.stack, pre.cur, pre.full>>
        /\ <<fldInst, fldRslt, blipUID, pict>>
             = [before EXCEPT ![target] = before[target] \o curToken.text]

\* a \field read inside a field result
C22_Witness ==
  /\ pc = "next"
  /\ pre.taken
  /\ curToken.text = W_field
  /\ "inFieldrslt" \in DOMAIN pre.full
  /\ pre.full["inFieldrslt"] = TRUE
  /\ fldRslt = pre.fldRslt \o W_field

\* C23: the strings handed to onField hold only text read inside the \field
\* group that ends: both buffers are empty when the \field after a "{" opens
\* the group, the "}" of the group passes the buffers as they stand, and both
\* are empty after the call.
C23_FieldBuffersAreLocal ==
  /\ (/\ Dispatched
      /\ pc = "next"
      /\ SplitControlWord(curToken).word = W_field
      /\ prevToken.type = OPEN_BRACE)
     => fldInst = <<>> /\ fldRslt = <<>>
  /\ (/\ pc = "next"
      /\ curToken.type = CLOSE_BRACE
      /\ IsTrue(pre.cur, "inField"))
     => /\ events = <<[cb |-> "onField", fldinst |-> pre.fldInst, fldrslt |-> pre.fldRslt]>>
        /\ fldInst = <<>>
        /\ fldRslt = <<>>

\* ------------------------------------------------------------------------
\* Images

\* C24: the "}" of a \pict group fires, when onImage is registered, exactly
\* onImage, with the pictAttributes of the group's scope and the bytes of the
\* text gathered, and nothing when it is not registered; no onStateChange
\* fires and the image buffer is empty afterwards.
C24_ImageFiresAtClose ==
  (/\ pc \in {"next", "error"}
   /\ pre.taken
   /\ curToken.type = CLOSE_BRACE
   /\ IsTrue(pre.cur, "inPict")
   /\ ~IsTrue(pre.cur, "inBlipUID"))
  => /\ pc = "next"
     /\ pict = <<>>
     /\ events = IF "onImage" \in callbacks
                 THEN <<[cb |-> "onImage", attributes |-> pre.cur["pictAttributes"],
                         data |-> HexPairs(pre.pict)]>>
                 ELSE <<>>

\* ------------------------------------------------------------------------
\* Initialisation

\* C25, as stated: installing the root scope before the first token is
\* interpreted fires onStateChange and then onOpenParagraph.
C25_InitialStateChange ==
  (pc = "loop" /\ prevToken = NoToken) =>
    /\ Len(events) = 2
    /\ events[1].cb = "onStateChange"
    /\ events[2].cb = "onOpenParagraph"

\* C25, amended: installing the root scope before the first token is
\* interpreted fires onOpenParagraph alone, once; no onStateChange announces
\* the root scope, which holds the five formatting defaults, groupSkip and
\* inField false, over an empty stack.
C25_InitialOpenOnly ==
  (pc = "loop" /\ prevToken = NoToken) =>
    /\ events = <<[cb |-> "onOpenParagraph"]>>
    /\ stateStack = <<>>
    /\ curState = [k \in FormattingKeys \cup {"groupSkip", "inField"} |->
                     IF k \in FormattingKeys THEN StateFormattingAttributes[k] ELSE FALSE]
    /\ fullStateCache = curState

\* the root scope is installed and the first token, a "{", waits
C25_Witness ==
  /\ pc = "loop"
  /\ prevToken = NoToken
  /\ curToken.type = OPEN_BRACE
  /\ Calls(events, "onOpenParagraph") = {1}
  /\ "bold" \in DOMAIN curState

\* ------------------------------------------------------------------------
\* Tokens

\* C27: every call of the tokenizer that returns a token returns as its
\* payload exactly the characters it consumed, so that the payloads of the
\* tokens returned before EOF, concatenated in order, are the input; in the
\* token of a control word a whitespace character can only be the last
\* character, and a whitespace character left at the cursor after a control
\* word is returned as a Character token of its own.
C27_PayloadsConcatenateToInput ==
  /\ [][(pc = "read" /\ pc' # "error")
        => /\ curToken'.text \o content' = content
           /\ (curToken'.type = EOF) <=> (content = <<>>)]_vars
  /\ [](/\ pc \in {"read", "done"}
        /\ curToken.type = CONTROL_WORDORSYM
        /\ IsAlpha(curToken.text[2])
        => \A i \in 1..(Len(curToken.text) - 1) : ~IsSpace(curToken.text[i]))
  /\ [][(/\ pc = "read"
         /\ curToken.type = CONTROL_WORDORSYM
         /\ content # <<>>
         /\ IsSpace(content[1]))
        => /\ pc' = "read"
           /\ curToken' = Token(CHARACTER, <<content[1]>>)]_vars

\* a control word that took one space was followed by a second space, which
\* came back as a Character token, and the input is consumed
C27_Witness ==
  /\ pc = "read"
  /\ final
  /\ vocabulary = {}
  /\ prevToken = Token(CONTROL_WORDORSYM, <<BS, "a", " ">>)
  /\ curToken = Token(CHARACTER, <<" ">>)
  /\ content = <<>>

\* ------------------------------------------------------------------------
\* Termination

\* C26: parse() on a finite input returns or raises: a tokenizer call that
\* returns a token other than EOF leaves the cursor at least one character
\* further, no step moves the cursor back, every other step of the loop
\* leaves the cursor alone and moves on to the next step of the iteration,
\* and so the loop runs at most once per character of the input.
C26_ParseTerminates ==
  /\ <>(pc \in {"done", "error"})
  /\ [][Len(content') <= Len(content)]_vars
  /\ [][(pc \in {"parse", "read"} /\ pc' \notin {"done", "error"} /\ curToken'.type # EOF)
        => Len(content') < Len(content)]_vars
  /\ [][/\ pc \in {"init", "loop", "next"} => content' = content
        /\ pc = "init" => pc' = "loop"
        /\ pc = "loop" => pc' = (IF curToken.type = EOF THEN "done"
                                 ELSE IF error' # "none" THEN "error" ELSE "next")
        /\ pc = "next" => pc' = "read"]_vars

\* parse() returned after an input of four tokens that ends with "}"
C26_Witness ==
  /\ pc = "done"
  /\ final
  /\ vocabulary = WholeVocabulary
  /\ curToken.type = EOF
  /\ prevToken.type = CLOSE_BRACE
  /\ stateStack = <<>>
  /\ openParagraphs = 2

\* ------------------------------------------------------------------------
\* On/off attributes

\* C13: each of \b, \i, \ul, \strike sets its attribute in the current scope,
\* to true when it has no parameter or the parameter "1", to false for every
\* other parameter.
C13_OnOffParameter ==
  LET parts == SplitControlWord(curToken)
      Attribute == (W_b :> "bold") @@ (W_i :> "italic") @@ (W_ul :> "underline")
                   @@ (W_strike :> "strikethrough")
  IN (Dispatched /\ parts.word \in DOMAIN Attribute) =>
       /\ pc = "next"
       /\ Attribute[parts.word] \in DOMAIN curState
       /\ curState[Attribute[parts.word]] = (parts.param \in {None, <<"1">>})

====
